---- MODULE Spec2Model ----
(***************************************************************************)
(* A model of the litellm pass-through routes                              *)
(* (proxy/pass_through_endpoints/llm_passthrough_endpoints.py), of the     *)
(* watsonx text-generation adapter                                         *)
(* (llms/watsonx/completion/transformation.py) and of the helpers that     *)
(* encrypt and decrypt stored secrets                                      *)
(* (proxy/common_utils/encrypt_decrypt_utils.py).                          *)
(*                                                                         *)
(* Representation of Python values:                                        *)
(*   - a str is a sequence of tokens; a token is either a delimiter        *)
(*     ("/", "?") or a delimiter-free word, so that concatenation is \o,   *)
(*     split("/") cuts at the "/" tokens and a word is never cut in two;   *)
(*     the empty str is << >>;                                             *)
(*   - None is the one-token sequence None, which no str of the model is;  *)
(*   - a dict is a function whose domain is its set of keys;               *)
(*   - raw request bodies are atoms, parsed by the table JsonLoads.        *)
(***************************************************************************)
EXTENDS Integers, Sequences, FiniteSets, TLC

VARIABLES pc, op, req, out, class_attrs, store

vars == <<pc, op, req, out, class_attrs, store>>

\* ------------------------------------------------------------------------
\* Python values
\* ------------------------------------------------------------------------

None == <<"<None>">>

EmptyDict == [k \in {} |-> <<>>]

\* bool(x) of an Optional[str]
Truthy(s) == s # None /\ s # <<>>

\* str(x) / "{}".format(x) of an Optional[str]
Str(s) == IF s = None THEN <<"None">> ELSE s

\* a or b, for Optional[str]
Or(a, b) == IF Truthy(a) THEN a ELSE b

\* s.startswith(prefix)
StartsWith(s, prefix) ==
    /\ Len(s) >= Len(prefix)
    /\ SubSeq(s, 1, Len(prefix)) = prefix

\* index of the first token of s that lies in delims, or Len(s) + 1
RECURSIVE FirstIn(_, _, _)
FirstIn(s, delims, i) ==
    IF i > Len(s) THEN Len(s) + 1
    ELSE IF s[i] \in delims THEN i
    ELSE FirstIn(s, delims, i + 1)

\* the words that contain the streaming marker "stream" as a substring
MarkerWords == {"stream", "streamGenerateContent", "https://stream.example"}

\* "stream" in s : the marker has no delimiter in it, so it lies in one word
ContainsStream(s) == \E i \in 1..Len(s) : s[i] \in MarkerWords

\* sub in s, for a str sub
ContainsSub(s, sub) ==
    \E i \in 1..(Len(s) - Len(sub) + 1) : SubSeq(s, i, i + Len(sub) - 1) = sub

\* d.update(e)
Update(d, e) == [k \in DOMAIN d \cup DOMAIN e |-> IF k \in DOMAIN e THEN e[k] ELSE d[k]]

\* d without the key k (d.pop(k, ...) seen from d)
Without(d, k) == [j \in DOMAIN d \ {k} |-> d[j]]

\* ------------------------------------------------------------------------
\* Request bodies and JSON
\* ------------------------------------------------------------------------

\* raw body bytes of the inbound request
Bodies == {"", "not json", "[]", "{}", "{\"stream\": true}", "{\"stream\":true}",
           "{\"stream\": false}", "{\"stream\": null}", "{\"stream\": 1}"}

JsonObject(d) == [ok |-> TRUE, isdict |-> TRUE, items |-> d]

JsonArray == [ok |-> TRUE, isdict |-> FALSE, items |-> EmptyDict]

JsonError == [ok |-> FALSE, isdict |-> FALSE, items |-> EmptyDict]

\* await request.json(): json.loads of the body; ok = FALSE when it raises
JsonLoads(raw) ==
    CASE raw = "{}" -> JsonObject(EmptyDict)
      [] raw = "{\"stream\": true}" -> JsonObject([stream |-> "true"])
      [] raw = "{\"stream\":true}" -> JsonObject([stream |-> "true"])
      [] raw = "{\"stream\": false}" -> JsonObject([stream |-> "false"])
      [] raw = "{\"stream\": null}" -> JsonObject([stream |-> "null"])
      [] raw = "{\"stream\": 1}" -> JsonObject([stream |-> "1"])
      [] raw = "[]" -> JsonArray
      [] OTHER -> JsonError

\* json.dumps(data): the one serialisation json.dumps gives a parsed value
JsonDumps(data) ==
    CASE ~data.isdict -> "[]"
      [] data.items = EmptyDict -> "{}"
      [] data.items["stream"] = "true" -> "{\"stream\": true}"
      [] data.items["stream"] = "false" -> "{\"stream\": false}"
      [] data.items["stream"] = "null" -> "{\"stream\": null}"
      [] OTHER -> "{\"stream\": 1}"

\* bool(v) of a parsed JSON scalar
JsonTruthy(v) == v \in {"true", "1"}

\* bool(_request_body.get("stream")) of a parsed JSON object
BodyStreamFlag(data) ==
    /\ "stream" \in DOMAIN data.items
    /\ JsonTruthy(data.items["stream"])

\* ------------------------------------------------------------------------
\* Inbound pass-through requests
\* ------------------------------------------------------------------------

\* longest inbound path suffix of the model, in tokens
MaxEndpointLen == 3

Methods == {"GET", "POST", "PUT", "DELETE", "PATCH"}

PathWords == {"v1", "stream", "agents"}

\* the strs of at most n tokens in which words and "/" alternate, so that every
\* token sequence is one Python str and every Python str one token sequence
RECURSIVE Strs(_, _)
Strs(words, n) ==
    IF n = 0 THEN {<< >>}
    ELSE LET shorter == Strs(words, n - 1)
             longest == {p \in shorter : Len(p) = n - 1}
         IN shorter \cup
            {Append(p, "/") : p \in {q \in longest : q = << >> \/ q[Len(q)] # "/"}} \cup
            {Append(p, w) : p \in {q \in longest : q = << >> \/ q[Len(q)] = "/"},
                            w \in words}

\* the path suffixes of inbound requests
Paths == Strs(PathWords, MaxEndpointLen)

\* the {endpoint:path} parameter: a path suffix, with or without a "?..." tail
Endpoints == Paths \cup {p \o <<"?", "stream">> : p \in Paths}

\* request.query_params of the inbound request
Queries ==
    {EmptyDict, [key |-> <<"caller-key">>, alt |-> <<"sse">>],
     [callback |-> <<"eu.assemblyai">>]}

\* the names of the query parameters, in the order the URL has them
QueryNames == <<"alt", "callback", "key">>

\* the query string of the inbound URL: "&name=value" for each parameter
RECURSIVE QueryString(_, _)
QueryString(query, i) ==
    IF i > Len(QueryNames) THEN << >>
    ELSE (IF QueryNames[i] \in DOMAIN query
          THEN <<"&", QueryNames[i], "=">> \o query[QueryNames[i]]
          ELSE << >>) \o QueryString(query, i + 1)

\* str(request.url) of the inbound request
RequestUrl(r) ==
    <<"http://proxy", "/", r.route, "/">> \o r.endpoint \o
    (IF DOMAIN r.query = {} THEN << >> ELSE <<"?">> \o Tail(QueryString(r.query, 1)))

\* passthrough_endpoint_router.get_credentials(custom_llm_provider, region_name):
\* the stored credential of the provider for that region, None when there is none
get_credentials(secrets, custom_llm_provider, region_name) ==
    secrets.credentials[<<custom_llm_provider, region_name>>]

\* get_secret_str(secret_name) / litellm.utils.get_secret(secret_name)
get_secret_str(secrets, secret_name) == secrets.env[secret_name]

\* ------------------------------------------------------------------------
\* URLs (httpx.URL)
\* ------------------------------------------------------------------------

\* httpx.URL(endpoint).path of a relative reference: what precedes the "?", and
\* "/" when nothing does
UrlPath(endpoint) ==
    LET path == SubSeq(endpoint, 1, FirstIn(endpoint, {"?"}, 1) - 1)
    IN IF path = << >> THEN <<"/">> ELSE path

\* encoded_endpoint, made to start with "/"
EncodedEndpoint(endpoint) ==
    LET encoded_endpoint == UrlPath(endpoint)
    IN IF StartsWith(encoded_endpoint, <<"/">>)
       THEN encoded_endpoint
       ELSE <<"/">> \o encoded_endpoint

\* word.lower(): of the words a host of the model is made of, the str of None
\* alone has an upper-case letter
Lower(word) == IF word = "None" THEN "none" ELSE word

\* str(httpx.URL(base_target_url).copy_with(path=path)): scheme and authority of
\* the base, the host in lower case, then the new path, then the base's own
\* query if it has one
CopyWithPath(base_target_url, path) ==
    LET slash == FirstIn(base_target_url, {"/", "?"}, 1)
        quest == FirstIn(base_target_url, {"?"}, 1)
    IN [i \in 1..(slash - 1) |-> Lower(base_target_url[i])] \o path \o
       SubSeq(base_target_url, quest, Len(base_target_url))

\* updated_url of a route
UpdatedUrl(base_target_url, endpoint) ==
    CopyWithPath(base_target_url, EncodedEndpoint(endpoint))

\* ------------------------------------------------------------------------
\* What a route hands to the forwarding function, or the error it raises
\* ------------------------------------------------------------------------

NoSigned == [method |-> "", url |-> << >>, data |-> "", credentials |-> None]

\* endpoint_func = create_pass_through_route(endpoint, target, custom_headers,
\* _forward_headers); await endpoint_func(request, ..., **kwargs)
Forward(target, custom_headers, forward_headers, kwargs, signed) ==
    [kind |-> "forwarded", error |-> "",
     target |-> target,
     custom_headers |-> custom_headers,
     forward_headers |-> forward_headers,
     kwargs |-> kwargs,
     signed |-> signed]

\* the handler raises
Raise(error) ==
    [kind |-> "error", error |-> error,
     target |-> << >>,
     custom_headers |-> EmptyDict,
     forward_headers |-> FALSE,
     kwargs |-> EmptyDict,
     signed |-> NoSigned]

\* the HTTP method of the request the forwarding function sends upstream: it
\* sends the inbound request's method unchanged
ForwardedMethod(r) == r.method

\* UrlStreaming, had it looked at the path of the URL alone
UrlStreaming_PathOnly(updated_url) ==
    ContainsStream(SubSeq(updated_url, FirstIn(updated_url, {"/"}, 1), Len(updated_url)))

\* "stream" in str(updated_url)
UrlStreaming(updated_url) == ContainsStream(updated_url)

\* ------------------------------------------------------------------------
\* The routes
\* ------------------------------------------------------------------------

\* gemini_proxy_route, had the caller's query parameters taken precedence
gemini_proxy_route_CallerWins(r) ==
    LET updated_url == UpdatedUrl(<<"https://generativelanguage.googleapis.com">>, r.endpoint)
        gemini_api_key == get_credentials(r.secrets, "gemini", None)
        merged_params == Update([key |-> gemini_api_key], r.query)
        is_streaming_request == UrlStreaming(updated_url)
    IN IF gemini_api_key = None
       THEN Raise("Exception")
       ELSE Forward(updated_url, EmptyDict, FALSE,
                    [query_params |-> merged_params, stream |-> is_streaming_request],
                    NoSigned)

\* gemini_proxy_route from the lookup of the credential on (lines 63-105), for
\* a caller user_api_key_auth accepted
gemini_proxy_route(r) ==
    LET updated_url == UpdatedUrl(<<"https://generativelanguage.googleapis.com">>, r.endpoint)
        gemini_api_key == get_credentials(r.secrets, "gemini", None)
        merged_params == Update(r.query, [key |-> gemini_api_key])
        is_streaming_request == UrlStreaming(updated_url)
    IN IF gemini_api_key = None
       THEN Raise("Exception")
       ELSE Forward(updated_url, EmptyDict, FALSE,
                    [query_params |-> merged_params, stream |-> is_streaming_request],
                    NoSigned)

\* cohere_proxy_route
cohere_proxy_route(r) ==
    LET updated_url == UpdatedUrl(<<"https://api.cohere.com">>, r.endpoint)
        cohere_api_key == get_credentials(r.secrets, "cohere", None)
        is_streaming_request == UrlStreaming(updated_url)
    IN Forward(updated_url,
               [Authorization |-> <<"Bearer ">> \o Str(cohere_api_key)],
               FALSE,
               [stream |-> is_streaming_request],
               NoSigned)

\* BodyStreaming, had it read the body whatever the method
BodyStreaming_AnyMethod(r) ==
    LET _request_body == JsonLoads(r.body)
    IN IF ~_request_body.ok
       THEN [error |-> "JSONDecodeError", stream |-> FALSE]
       ELSE IF ~_request_body.isdict
       THEN [error |-> "AttributeError", stream |-> FALSE]
       ELSE [error |-> "", stream |-> BodyStreamFlag(_request_body)]

\* the streaming check of anthropic_proxy_route and assemblyai_proxy_route:
\* the error it raises ("" when none) and is_streaming_request
BodyStreaming(r) ==
    IF r.method = "POST"
    THEN LET _request_body == JsonLoads(r.body)
         IN IF ~_request_body.ok
            THEN [error |-> "JSONDecodeError", stream |-> FALSE]
            ELSE IF ~_request_body.isdict
            THEN [error |-> "AttributeError", stream |-> FALSE]
            ELSE [error |-> "", stream |-> BodyStreamFlag(_request_body)]
    ELSE [error |-> "", stream |-> FALSE]

\* anthropic_proxy_route
anthropic_proxy_route(r) ==
    LET updated_url == UpdatedUrl(<<"https://api.anthropic.com">>, r.endpoint)
        anthropic_api_key == get_credentials(r.secrets, "anthropic", None)
        check == BodyStreaming(r)
    IN IF check.error # ""
       THEN Raise(check.error)
       ELSE Forward(updated_url,
                    "x-api-key" :> Str(anthropic_api_key),
                    TRUE,
                    [stream |-> check.stream],
                    NoSigned)

\* BEDROCK_AGENT_RUNTIME_PASS_THROUGH_ROUTES
BedrockAgentRuntimeRoutes == {<<"agents", "/">>}

\* _is_bedrock_agent_runtime_route
_is_bedrock_agent_runtime_route(endpoint) ==
    \E _route \in BedrockAgentRuntimeRoutes : ContainsSub(endpoint, _route)

\* BedrockConverseLLM().get_credentials()
BedrockCredentials(secrets) == secrets.credentials[<<"bedrock", None>>]

\* bedrock_proxy_route. sigv4.add_auth raises NoCredentialsError when it has no
\* credentials and TypeError when the region of its credential scope is None.
bedrock_proxy_route(r) ==
    LET aws_region_name == get_secret_str(r.secrets, "AWS_REGION_NAME")
        base_target_url ==
            IF _is_bedrock_agent_runtime_route(r.endpoint)
            THEN <<"https://bedrock-agent-runtime.">> \o Str(aws_region_name)
                     \o <<".amazonaws.com">>
            ELSE <<"https://bedrock-runtime.">> \o Str(aws_region_name)
                     \o <<".amazonaws.com">>
        updated_url == UpdatedUrl(base_target_url, r.endpoint)
        credentials == BedrockCredentials(r.secrets)
        data == JsonLoads(r.body)
        _request == [method |-> "POST", url |-> updated_url,
                     data |-> JsonDumps(data), credentials |-> credentials]
        is_streaming_request == UrlStreaming(updated_url)
    IN IF ~data.ok THEN Raise("HTTPException")
       ELSE IF credentials = None THEN Raise("NoCredentialsError")
       ELSE IF aws_region_name = None THEN Raise("TypeError")
       ELSE Forward(_request.url,
                    ("Content-Type" :> <<"application/json">>) @@
                    ("Authorization" :> <<"AWS4-HMAC-SHA256">>),
                    FALSE,
                    [stream |-> is_streaming_request, custom_body |-> data,
                     query_params |-> EmptyDict],
                    _request)

\* the words that contain "eu.assemblyai" as a substring
EuWords == {"eu.assemblyai"}

\* is_eu_route = "eu.assemblyai" in str(request.url)
IsEuRoute(r) ==
    LET url == RequestUrl(r)
    IN \E i \in 1..Len(url) : url[i] \in EuWords

\* assemblyai_proxy_route
assemblyai_proxy_route(r) ==
    LET is_eu_route == IsEuRoute(r)
        base_target_url == IF is_eu_route THEN <<"https://api.eu.assemblyai.com">>
                           ELSE <<"https://api.assemblyai.com">>
        updated_url == UpdatedUrl(base_target_url, r.endpoint)
        assemblyai_api_key ==
            get_credentials(r.secrets, "assemblyai", IF is_eu_route THEN <<"eu">> ELSE None)
        check == BodyStreaming(r)
    IN IF check.error # ""
       THEN Raise(check.error)
       ELSE Forward(updated_url,
                    [Authorization |-> Str(assemblyai_api_key)],
                    FALSE,
                    [stream |-> check.stream],
                    NoSigned)

\* _base_openai_pass_through_handler, had it set the bearer header alone
_base_openai_pass_through_handler_BearerOnly(r, base_target_url, api_key) ==
    LET updated_url == UpdatedUrl(base_target_url, r.endpoint)
        is_streaming_request == UrlStreaming(updated_url)
    IN Forward(updated_url,
               "authorization" :> (<<"Bearer ">> \o Str(api_key)),
               FALSE,
               [stream |-> is_streaming_request, query_params |-> r.query],
               NoSigned)

\* _base_openai_pass_through_handler
_base_openai_pass_through_handler(r, base_target_url, api_key) ==
    LET updated_url == UpdatedUrl(base_target_url, r.endpoint)
        is_streaming_request == UrlStreaming(updated_url)
    IN Forward(updated_url,
               ("authorization" :> (<<"Bearer ">> \o Str(api_key))) @@
               ("api-key" :> Str(api_key)),
               FALSE,
               [stream |-> is_streaming_request, query_params |-> r.query],
               NoSigned)

\* azure_proxy_route
azure_proxy_route(r) ==
    LET base_target_url == get_secret_str(r.secrets, "AZURE_API_BASE")
        azure_api_key == get_credentials(r.secrets, "azure", None)
    IN IF base_target_url = None THEN Raise("Exception")
       ELSE IF azure_api_key = None THEN Raise("Exception")
       ELSE _base_openai_pass_through_handler(r, base_target_url, azure_api_key)

\* openai_proxy_route
openai_proxy_route(r) ==
    LET base_target_url == <<"https://api.openai.com">>
        openai_api_key == get_credentials(r.secrets, "openai", None)
    IN IF openai_api_key = None THEN Raise("Exception")
       ELSE _base_openai_pass_through_handler(r, base_target_url, openai_api_key)

\* ------------------------------------------------------------------------
\* The watsonx adapter (IBMWatsonXAIConfig)
\* ------------------------------------------------------------------------

\* model.split("/"): the list of the strs between the "/" tokens
RECURSIVE Split(_)
Split(s) ==
    LET i == FirstIn(s, {"/"}, 1)
    IN IF i > Len(s) THEN <<s>>
       ELSE <<SubSeq(s, 1, i - 1)>> \o Split(SubSeq(s, i + 1, Len(s)))

\* "/".join(parts)
RECURSIVE Join(_)
Join(parts) ==
    IF parts = << >> THEN << >>
    ELSE IF Len(parts) = 1 THEN parts[1]
    ELSE parts[1] \o <<"/">> \o Join(Tail(parts))

\* url.rstrip("/")
RECURSIVE RStripSlash(_)
RStripSlash(s) ==
    IF s # << >> /\ s[Len(s)] = "/" THEN RStripSlash(SubSeq(s, 1, Len(s) - 1)) ELSE s

\* PayloadIsDeployment, had it tested the provider segment of the model
PayloadIsDeployment_Provider(model) == Split(model)[1] = <<"deployment">>

\* model.startswith("deployment/") in transform_request
PayloadIsDeployment(model) == StartsWith(model, <<"deployment", "/">>)

\* model.startswith("deployment/") in get_complete_url
UrlIsDeployment(model) == StartsWith(model, <<"deployment", "/">>)

\* WatsonXAIEndpoint.TEXT_GENERATION
TEXT_GENERATION == <<"/", "ml", "/", "v1", "/", "text", "/", "generation">>

\* WatsonXAIEndpoint.TEXT_GENERATION_STREAM
TEXT_GENERATION_STREAM == <<"/", "ml", "/", "v1", "/", "text", "/", "generation_stream">>

\* WatsonXAIEndpoint.DEPLOYMENT_TEXT_GENERATION.value.format(deployment_id=...)
DEPLOYMENT_TEXT_GENERATION(deployment_id) ==
    <<"/", "ml", "/", "v1", "/", "deployments", "/">> \o deployment_id \o
    <<"/", "text", "/", "generation">>

\* WatsonXAIEndpoint.DEPLOYMENT_TEXT_GENERATION_STREAM.value.format(deployment_id=...)
DEPLOYMENT_TEXT_GENERATION_STREAM(deployment_id) ==
    <<"/", "ml", "/", "v1", "/", "deployments", "/">> \o deployment_id \o
    <<"/", "text", "/", "generation_stream">>

\* litellm.WATSONX_DEFAULT_API_VERSION
WATSONX_DEFAULT_API_VERSION == <<"2024-03-13">>

\* the names get_complete_url looks the base URL up under, in its order
UrlAliases == <<"WATSONX_API_BASE", "WATSONX_URL", "WX_URL", "WML_URL">>

\* url = api_base or get_secret_str(...) or ... : None when the chain ends on None
ResolveUrl(api_base, env) ==
    Or(api_base,
       Or(env[UrlAliases[1]],
          Or(env[UrlAliases[2]],
             Or(env[UrlAliases[3]], env[UrlAliases[4]]))))

\* DeploymentId, had it taken the path segment after "deployment/" alone
DeploymentId_SecondSegment(model) == Split(model)[2]

\* deployment_id = "/".join(model.split("/")[1:])
DeploymentId(model) == Join(Tail(Split(model)))

\* bool(stream) of the Optional[bool] stream: "None", "True" or "False"
StreamTruthy(stream) == stream = "True"

\* the endpoint get_complete_url chooses, once the space_id check has passed
WxEndpoint(model, stream) ==
    IF UrlIsDeployment(model)
    THEN IF StreamTruthy(stream)
         THEN DEPLOYMENT_TEXT_GENERATION_STREAM(DeploymentId(model))
         ELSE DEPLOYMENT_TEXT_GENERATION(DeploymentId(model))
    ELSE IF StreamTruthy(stream) THEN TEXT_GENERATION_STREAM ELSE TEXT_GENERATION

\* optional_params.get(key): None when the key is absent
Get(d, key) == IF key \in DOMAIN d THEN d[key] ELSE None

WxOk(value, optional_params) ==
    [kind |-> "ok", error |-> "", value |-> value, optional_params |-> optional_params]

WxError(error, optional_params) ==
    [kind |-> "error", error |-> error, value |-> << >>, optional_params |-> optional_params]

\* get_complete_url, had it asked only whether optional_params has the key
\* space_id
get_complete_url_SpaceIdKey(api_base, env, model, optional_params, stream) ==
    LET url == ResolveUrl(api_base, env)
    IN IF url = None
       THEN WxError("Watsonx URL not set", optional_params)
       ELSE IF UrlIsDeployment(model) /\ "space_id" \notin DOMAIN optional_params
       THEN WxError("space_id is required", optional_params)
       ELSE LET api_version == IF "api_version" \in DOMAIN optional_params
                               THEN optional_params["api_version"]
                               ELSE WATSONX_DEFAULT_API_VERSION
            IN WxOk(RStripSlash(url) \o WxEndpoint(model, stream)
                        \o <<"?", "version=">> \o Str(api_version),
                    Without(optional_params, "api_version"))

\* IBMWatsonXAIConfig.get_complete_url. The result carries optional_params as the call leaves it.
get_complete_url(api_base, env, model, optional_params, stream) ==
    LET url == ResolveUrl(api_base, env)
    IN IF url = None
       THEN WxError("Watsonx URL not set", optional_params)
       ELSE IF UrlIsDeployment(model) /\ Get(optional_params, "space_id") = None
       THEN WxError("space_id is required", optional_params)
       ELSE LET api_version == IF "api_version" \in DOMAIN optional_params
                               THEN optional_params["api_version"]
                               ELSE WATSONX_DEFAULT_API_VERSION
            IN WxOk(RStripSlash(url) \o WxEndpoint(model, stream)
                        \o <<"?", "version=">> \o Str(api_version),
                    Without(optional_params, "api_version"))

\* convert_watsonx_messages_to_prompt(model, messages, provider, ...): the
\* flattened prompt of the messages
convert_watsonx_messages_to_prompt(model, messages, provider) == <<"prompt:">> \o messages

\* _get_api_params(params): the project the call is addressed to, None when no
\* source gives one (the call then fails)
_get_api_params(params) == [project_id |-> Get(params, "project_id")]

\* the params as _get_api_params leaves them: it pops the keys it reads the
\* address of the call from; taken is the set of keys it pops
AfterGetApiParams(params, taken) == [k \in DOMAIN params \ taken |-> params[k]]

\* PayloadModelId, had it dropped the leading "<provider>/" of the model
PayloadModelId_Stripped(model) == Join(Tail(Split(model)))

\* payload["model_id"] = model
PayloadModelId(model) == model

\* transform_request, had it kept the top-level value where extra_body has an
\* entry of the same name
transform_request_TopLevelWins(model, messages, optional_params, taken) ==
    LET provider == Split(model)[1]
        prompt == convert_watsonx_messages_to_prompt(model, messages, provider)
        extra_body_params == IF "extra_body" \in DOMAIN optional_params
                             THEN optional_params["extra_body"] ELSE EmptyDict
        updated == Update(extra_body_params, Without(optional_params, "extra_body"))
        watsonx_api_params == _get_api_params(updated)
        popped == AfterGetApiParams(updated, taken)
        moderations == IF "moderations" \in DOMAIN popped
                       THEN popped["moderations"] ELSE EmptyDict
        parameters == Without(popped, "moderations")
        payload == ("input" :> prompt) @@ ("moderations" :> moderations) @@
                   ("parameters" :> parameters)
    IN IF watsonx_api_params.project_id = None
       THEN WxError("Watsonx project_id not set", popped)
       ELSE IF ~PayloadIsDeployment(model)
       THEN WxOk(payload @@ ("model_id" :> PayloadModelId(model)) @@
                            ("project_id" :> watsonx_api_params.project_id),
                 parameters)
       ELSE WxOk(payload, parameters)

\* IBMWatsonXAIConfig.transform_request: the payload, or the error of
\* _get_api_params, raised before moderations is taken out of optional_params.
\* The result carries optional_params as the call leaves it; taken is the set
\* of keys _get_api_params pops from the params.
transform_request(model, messages, optional_params, taken) ==
    LET provider == Split(model)[1]
        prompt == convert_watsonx_messages_to_prompt(model, messages, provider)
        extra_body_params == IF "extra_body" \in DOMAIN optional_params
                             THEN optional_params["extra_body"] ELSE EmptyDict
        updated == Update(Without(optional_params, "extra_body"), extra_body_params)
        watsonx_api_params == _get_api_params(updated)
        popped == AfterGetApiParams(updated, taken)
        moderations == IF "moderations" \in DOMAIN popped
                       THEN popped["moderations"] ELSE EmptyDict
        parameters == Without(popped, "moderations")
        payload == ("input" :> prompt) @@ ("moderations" :> moderations) @@
                   ("parameters" :> parameters)
    IN IF watsonx_api_params.project_id = None
       THEN WxError("Watsonx project_id not set", popped)
       ELSE IF ~PayloadIsDeployment(model)
       THEN WxOk(payload @@ ("model_id" :> PayloadModelId(model)) @@
                            ("project_id" :> watsonx_api_params.project_id),
                 parameters)
       ELSE WxOk(payload, parameters)

\* _generate_watsonx_token(api_key, token): the token the issuer hands out, None
\* when it hands out none (the call then fails)
_generate_watsonx_token(api_key, token, issuer) == issuer

\* validate_environment, had it taken any token that is not None as explicit
validate_environment_NotNone(optional_params, api_key, issuer) ==
    LET headers == ("Content-Type" :> <<"application/json">>) @@
                   ("Accept" :> <<"application/json">>)
        token == Get(optional_params, "token")
    IN IF token # None
       THEN [kind |-> "ok", error |-> "", issued |-> FALSE,
             value |-> headers @@ ("Authorization" :> (<<"Bearer ">> \o token))]
       ELSE LET generated == _generate_watsonx_token(api_key, token, issuer)
            IN IF generated = None
               THEN [kind |-> "error", error |-> "token", issued |-> TRUE,
                     value |-> EmptyDict]
               ELSE [kind |-> "ok", error |-> "", issued |-> TRUE,
                     value |-> headers @@ ("Authorization" :> (<<"Bearer ">> \o generated))]

\* IBMWatsonXAIConfig.validate_environment: the headers, and whether the token
\* issuer was called
validate_environment(optional_params, api_key, issuer) ==
    LET headers == ("Content-Type" :> <<"application/json">>) @@
                   ("Accept" :> <<"application/json">>)
        token == Get(optional_params, "token")
    IN IF Truthy(token)
       THEN [kind |-> "ok", error |-> "", issued |-> FALSE,
             value |-> headers @@ ("Authorization" :> (<<"Bearer ">> \o token))]
       ELSE LET generated == _generate_watsonx_token(api_key, token, issuer)
            IN IF generated = None
               THEN [kind |-> "error", error |-> "token", issued |-> TRUE,
                     value |-> EmptyDict]
               ELSE [kind |-> "ok", error |-> "", issued |-> TRUE,
                     value |-> headers @@ ("Authorization" :> (<<"Bearer ">> \o generated))]

\* the destinations map_openai_params writes at the top level of optional_params
TopLevelDestination_BothWays ==
    [max_tokens |-> "max_new_tokens", stream |-> "stream",
     temperature |-> "temperature", top_p |-> "top_p",
     frequency_penalty |-> "repetition_penalty", seed |-> "random_seed",
     stop |-> "stop_sequences", min_tokens |-> "min_new_tokens"]

\* the branches of map_openai_params that write optional_params[destination]
TopLevelDestination ==
    [max_tokens |-> "max_new_tokens", stream |-> "stream",
     temperature |-> "temperature", top_p |-> "top_p",
     frequency_penalty |-> "repetition_penalty", seed |-> "random_seed",
     stop |-> "stop_sequences"]

\* ExtraBodyDestination, had it a branch for logit_bias
ExtraBodyDestination_LogitBias ==
    [decoding_method |-> "decoding_method", min_tokens |-> "min_new_tokens",
     top_k |-> "top_k", truncate_input_tokens |-> "truncate_input_tokens",
     length_penalty |-> "length_penalty", time_limit |-> "time_limit",
     return_options |-> "return_options", logit_bias |-> "logit_bias"]

\* the branches of map_openai_params that write extra_body[destination]
ExtraBodyDestination ==
    [decoding_method |-> "decoding_method", min_tokens |-> "min_new_tokens",
     top_k |-> "top_k", truncate_input_tokens |-> "truncate_input_tokens",
     length_penalty |-> "length_penalty", time_limit |-> "time_limit",
     return_options |-> "return_options"]

\* what the loop over non_default_params.items() writes through the branches of
\* one table: destination -> value
Mapped(non_default_params, destination) ==
    LET keys == DOMAIN non_default_params \cap DOMAIN destination
    IN [d \in {destination[k] : k \in keys} |->
           non_default_params[CHOOSE k \in keys : destination[k] = d]]

\* map_openai_params, had it attached extra_body whether or not it is empty
map_openai_params_AlwaysExtraBody(non_default_params, optional_params, model, drop_params) ==
    LET extra_body == Mapped(non_default_params, ExtraBodyDestination)
        written == Update(optional_params, Mapped(non_default_params, TopLevelDestination))
        returned == Update(written, [extra_body |-> extra_body])
    IN WxOk(returned, returned)

\* IBMWatsonXAIConfig.map_openai_params: the optional_params it returns (the dict
\* it was given, written in place)
map_openai_params(non_default_params, optional_params, model, drop_params) ==
    LET extra_body == Mapped(non_default_params, ExtraBodyDestination)
        written == Update(optional_params, Mapped(non_default_params, TopLevelDestination))
        returned == IF DOMAIN extra_body # {}
                    THEN Update(written, [extra_body |-> extra_body])
                    ELSE written
    IN WxOk(returned, returned)

\* the attributes the class IBMWatsonXAIConfig declares, with their defaults
IBMWatsonXAIConfig ==
    [decoding_method |-> <<"sample">>, temperature |-> None,
     max_new_tokens |-> None, min_new_tokens |-> None, length_penalty |-> None,
     stop_sequences |-> None, top_k |-> None, top_p |-> None,
     repetition_penalty |-> None, truncate_input_tokens |-> None,
     include_stop_sequences |-> <<"False">>, return_options |-> None,
     random_seed |-> None, moderations |-> None, stream |-> <<"False">>]

\* IBMWatsonXAIConfig.__init__(self, **args): the attributes of the class after
\* the call. locals() holds self, the fifteen named arguments and kwargs; every
\* one but self whose value is not None is set on self.__class__, kwargs (a
\* dict, never None) among them.
__init__(cls, args, kwargs) ==
    LET set == {key \in DOMAIN args : args[key] # None}
    IN [key \in DOMAIN cls \cup set \cup {"kwargs"} |->
           IF key = "kwargs" THEN kwargs
           ELSE IF key \in set THEN args[key]
           ELSE cls[key]]

\* BaseConfig.get_config(cls): the attributes of the class that are not None
BaseConfig_get_config(cls) ==
    [key \in {k \in DOMAIN cls : k = "kwargs" \/ cls[k] # None} |-> cls[key]]

\* IBMWatsonXAIConfig.get_config
get_config(cls) == BaseConfig_get_config(cls)

\* ------------------------------------------------------------------------
\* Stored secrets (proxy/common_utils/encrypt_decrypt_utils.py). A stored value
\* is [isstr, v]: whether it is a str, and its tokens. Bytes are token
\* sequences too: a secret box starts with the tokens "box:" and the signing
\* key, and its base64 text starts with the token "b64:".
\* ------------------------------------------------------------------------

\* _get_salt_key: LITELLM_SALT_KEY, else the master key of the proxy
_get_salt_key(env) ==
    LET salt_key == env.LITELLM_SALT_KEY
    IN IF salt_key = None THEN env.master_key ELSE salt_key

\* the outcome of a call: the exception raised ("" when none) and what is returned
Returned(value) == [error |-> "", value |-> value]

Raised(error) == [error |-> error, value |-> None]

\* encrypt_value(value, signing_key): box.encrypt under the hash of the key
encrypt_value(value, signing_key) ==
    IF signing_key = None THEN Raised("AttributeError")
    ELSE Returned(<<"box:">> \o signing_key \o <<":">> \o value)

\* decrypt_value(value, signing_key): box.decrypt under the hash of the key, which
\* fails on what that key did not encrypt
decrypt_value(value, signing_key) ==
    IF signing_key = None THEN Raised("AttributeError")
    ELSE LET header == <<"box:">> \o signing_key \o <<":">>
         IN IF StartsWith(value, header)
            THEN Returned(SubSeq(value, Len(header) + 1, Len(value)))
            ELSE Raised("CryptoError")

\* base64.b64encode(...).decode("utf-8")
b64encode(bytes) == <<"b64:">> \o bytes

\* base64.b64decode(s): fails on text that is not base64
b64decode(s) ==
    IF StartsWith(s, <<"b64:">>) THEN Returned(Tail(s)) ELSE Raised("binascii.Error")

\* encrypt_value_helper: a str is encrypted and encoded, anything else is
\* returned as it is; an exception is raised again
encrypt_value_helper(value, env) ==
    LET signing_key == _get_salt_key(env)
    IN IF value.isstr
       THEN LET encrypted_value == encrypt_value(value.v, signing_key)
            IN IF encrypted_value.error # "" THEN Raised(encrypted_value.error)
               ELSE Returned([isstr |-> TRUE, v |-> b64encode(encrypted_value.value)])
       ELSE Returned(value)

\* decrypt_value_helper, had it raised its exception again as
\* encrypt_value_helper does
decrypt_value_helper_Raising(value, env) ==
    LET signing_key == _get_salt_key(env)
    IN IF value.isstr
       THEN LET decoded_b64 == b64decode(value.v)
            IN IF decoded_b64.error # "" THEN Raised(decoded_b64.error)
               ELSE LET decrypted == decrypt_value(decoded_b64.value, signing_key)
                    IN IF decrypted.error # "" THEN Raised(decrypted.error)
                       ELSE Returned([isstr |-> TRUE, v |-> decrypted.value])
       ELSE Returned(value)

\* decrypt_value_helper: a str is decoded and decrypted, anything else is
\* returned as it is; an exception of the decoding or of the decryption is
\* logged and the function returns None
decrypt_value_helper(value, env) ==
    LET signing_key == _get_salt_key(env)
    IN IF value.isstr
       THEN LET decoded_b64 == b64decode(value.v)
            IN IF decoded_b64.error # "" THEN Returned([isstr |-> FALSE, v |-> None])
               ELSE LET decrypted == decrypt_value(decoded_b64.value, signing_key)
                    IN IF decrypted.error # "" THEN Returned([isstr |-> FALSE, v |-> None])
                       ELSE Returned([isstr |-> TRUE, v |-> decrypted.value])
       ELSE Returned(value)

\* a caller that decrypts the stored values one after the other: what it has
\* got so far, and the exception that stopped it ("" when none)
RECURSIVE DecryptAll(_, _)
DecryptAll(values, env) ==
    IF values = << >> THEN [error |-> "", value |-> << >>]
    ELSE LET first == decrypt_value_helper(Head(values), env)
         IN IF first.error # "" THEN [error |-> first.error, value |-> << >>]
            ELSE LET rest == DecryptAll(Tail(values), env)
                 IN [error |-> rest.error, value |-> <<first.value>> \o rest.value]

\* ------------------------------------------------------------------------
\* The inputs of the routes
\* ------------------------------------------------------------------------

\* the credential stored for a provider and region, when one is stored
KeyOf(provider, region) ==
    <<"key-", provider>> \o (IF region = None THEN << >> ELSE <<"-">> \o region)

\* the credential stores over the lookups of one provider: each lookup has its own
\* credential, or none
CredentialStores(provider, regions) ==
    LET lookups == {<<provider, g>> : g \in regions}
    IN {[k \in lookups |-> IF k \in set THEN KeyOf(k[1], k[2]) ELSE None] :
            set \in SUBSET lookups}

\* the environments that give one secret one of the values
Environments(secret_name, values) == {secret_name :> v : v \in values}

AzureApiBases == {None, <<"https://az.example">>, <<"https://stream.example", "/", "openai">>}

AwsRegionNames == {None, <<"us-east-1">>}

SecretsOf(route) ==
    CASE route = "azure" ->
           [credentials : CredentialStores("azure", {None}),
            env : Environments("AZURE_API_BASE", AzureApiBases)]
      [] route = "bedrock" ->
           [credentials : CredentialStores("bedrock", {None}),
            env : Environments("AWS_REGION_NAME", AwsRegionNames)]
      [] route \in {"assemblyai", "eu.assemblyai"} ->
           [credentials : CredentialStores("assemblyai", {None, <<"eu">>}),
            env : {EmptyDict}]
      [] OTHER ->
           [credentials : CredentialStores(route, {None}), env : {EmptyDict}]

Requests(route) ==
    [route : {route}, method : Methods, endpoint : Endpoints, body : Bodies,
     query : Queries, secrets : SecretsOf(route)]

\* ------------------------------------------------------------------------
\* The inputs of the adapter
\* ------------------------------------------------------------------------

\* longest model identifier of the model, in tokens
MaxModelLen == 4

ModelWords == {"deployment", "ibm", "granite-13b"}

\* model identifiers as the adapter is given them
WxModels == Strs(ModelWords, MaxModelLen)

\* the api_base argument: absent, empty, a URL that ends with "/", or a URL
\* that has a query string
ApiBases ==
    {None, << >>, <<"https://wx.example", "/">>,
     <<"https://wx.example", "?", "region=us">>}

\* the environments of get_complete_url: each alias unset or set to its own URL,
\* the last one also set and empty
UrlEnvs ==
    [WATSONX_API_BASE : {None, <<"https://watsonx-api-base.example">>},
     WATSONX_URL : {None, <<"https://watsonx-url.example">>},
     WX_URL : {None, <<"https://wx-url.example">>},
     WML_URL : {None, << >>, <<"https://wml-url.example">>}]

\* the optional_params get_complete_url reads
UrlParams ==
    {Update(sp, av) :
        sp \in {EmptyDict, [space_id |-> None], [space_id |-> <<"space-1">>]},
        av \in {EmptyDict, [api_version |-> <<"2023-05-29">>]}}

StreamFlags == {"None", "True", "False"}

UrlCalls ==
    [api_base : ApiBases, env : UrlEnvs, model : WxModels,
     optional_params : UrlParams, stream : StreamFlags]

ParamValue ==
    [temperature |-> <<"0.5">>, top_k |-> <<"40">>, project_id |-> <<"project-1">>,
     space_id |-> <<"space-1">>, watsonx_token |-> <<"token-1">>]

ScalarParams == {[k \in keys |-> ParamValue[k]] : keys \in SUBSET DOMAIN ParamValue}

\* the extra_body of the optional_params: empty, a parameter, a parameter the
\* top level may have too, moderations, or an entry itself named extra_body
ExtraBodies ==
    {EmptyDict, [top_k |-> <<"9">>], [temperature |-> <<"0.9">>],
     [moderations |-> [pii |-> <<"on">>], top_k |-> <<"9">>],
     [extra_body |-> [top_k |-> <<"9">>]]}

\* the optional_params transform_request is given
TransformParams ==
    {Update(Update(sc, eb), md) :
        sc \in ScalarParams,
        eb \in {EmptyDict} \cup {[extra_body |-> e] : e \in ExtraBodies},
        md \in {EmptyDict, [moderations |-> [hap |-> <<"on">>]]}}

\* the sets of keys _get_api_params may pop from the params: none, the two
\* identifiers that address the call, or these and a credential the params carry
ApiParamKeySets ==
    {{}, {"project_id", "space_id"}, {"project_id", "space_id", "watsonx_token"}}

TransformCalls ==
    [model : WxModels, messages : {<<"hi">>}, optional_params : TransformParams,
     taken : ApiParamKeySets]

ValidateCalls ==
    [optional_params : {EmptyDict, [token |-> None], [token |-> << >>],
                        [token |-> <<"explicit-token">>]},
     api_key : {None, <<"api-key">>},
     issuer : {None, <<"issued-token">>}]

\* most keys of the non_default_params of one call
MaxParams == 3

\* the value the caller gives each parameter: the keys with a branch in
\* map_openai_params, and two keys without one
OpenaiValue ==
    [max_tokens |-> <<"256">>, stream |-> <<"true">>, temperature |-> <<"0.5">>,
     top_p |-> <<"0.9">>, frequency_penalty |-> <<"1.2">>, seed |-> <<"42">>,
     stop |-> <<"###">>, decoding_method |-> <<"greedy">>, min_tokens |-> <<"8">>,
     top_k |-> <<"40">>, truncate_input_tokens |-> <<"512">>,
     length_penalty |-> <<"decay">>, time_limit |-> <<"1000">>,
     return_options |-> <<"input_text">>,
     logit_bias |-> <<"bias">>, max_new_tokens |-> <<"64">>]

\* non_default_params: the parameters the caller set
NonDefaultParams ==
    {[k \in keys |-> OpenaiValue[k]] :
        keys \in {ks \in SUBSET DOMAIN OpenaiValue : Cardinality(ks) <= MaxParams}}

\* the optional_params map_openai_params is given: the caller starts every
\* mapping from a new, empty dict (map_parameters takes the canonical
\* parameters alone)
FreshOptionalParams == {EmptyDict}

MapCalls ==
    [non_default_params : NonDefaultParams, optional_params : FreshOptionalParams,
     model : {<<"ibm", "/", "granite-13b">>}, drop_params : BOOLEAN]

\* the arguments of IBMWatsonXAIConfig(...): no override, or an override of
\* temperature, of decoding_method, or of both
NoOverrides == [key \in DOMAIN IBMWatsonXAIConfig |-> None]

InitCalls ==
    [args : {Update(NoOverrides, Update(t, d)) :
                 t \in {EmptyDict, [temperature |-> <<"0.5">>]},
                 d \in {EmptyDict, [decoding_method |-> <<"greedy">>]}},
     kwargs : {EmptyDict}]

\* get_config takes the class alone
ConfigCalls == {[cls |-> "IBMWatsonXAIConfig"]}

\* most stored values one caller decrypts in a row
MaxValues == 3

\* the environments of the helpers: the salt key and the master key, each set
\* or not
SecretEnvs ==
    [LITELLM_SALT_KEY : {None, <<"salt-1">>}, master_key : {None, <<"master-1">>}]

Plaintexts == {<<"sk-live">>}

\* the stored values: a plaintext as encrypt_value_helper stored it under some
\* signing key (the salt key, the master key, or a key no longer in use), a str
\* that is not base64, base64 text that is no secret box, and a value that is
\* not a str
StoredValues ==
    {encrypt_value_helper([isstr |-> TRUE, v |-> p],
                          [LITELLM_SALT_KEY |-> k, master_key |-> None]).value :
         p \in Plaintexts, k \in {<<"salt-1">>, <<"master-1">>, <<"old-salt">>}}
    \cup {[isstr |-> TRUE, v |-> <<"not base64">>],
          [isstr |-> TRUE, v |-> <<"b64:", "garbage">>],
          [isstr |-> FALSE, v |-> <<"5">>]}

\* the sequences of at most n stored values
RECURSIVE ValueSeqs(_)
ValueSeqs(n) ==
    IF n = 0 THEN {<< >>}
    ELSE LET shorter == ValueSeqs(n - 1)
         IN shorter \cup {Append(s, x) : s \in {t \in shorter : Len(t) = n - 1},
                                         x \in StoredValues}

DecryptCalls == [values : ValueSeqs(MaxValues), env : SecretEnvs]

\* ------------------------------------------------------------------------
\* The state machine: one call at a time is taken up, handled and returned. A
\* route that awaits inside its handler is taken up in one step and resumed in
\* another; while it is suspended another task of the event loop may write the
\* credentials and the environment the routes read.
\* ------------------------------------------------------------------------

NoReq == [route |-> ""]

NoOut == [kind |-> "none"]

\* no route is in flight: no credentials or environment are being read
NoStore == [credentials |-> EmptyDict, env |-> EmptyDict]

Init ==
    /\ pc = "idle"
    /\ op = ""
    /\ req = NoReq
    /\ out = NoOut
    /\ class_attrs = IBMWatsonXAIConfig
    /\ store = NoStore

\* a call that is handled to its end without yielding to the event loop
Handle(name, r, o) ==
    /\ pc' = "done"
    /\ op' = name
    /\ req' = r
    /\ out' = o
    /\ UNCHANGED <<class_attrs, store>>

\* a route handled to its hand-off without yielding: the credentials and the
\* environment are the ones of the moment the request arrives
HandleRoute(r, o) ==
    /\ pc' = "done"
    /\ op' = "route"
    /\ req' = r
    /\ out' = o
    /\ store' = r.secrets
    /\ UNCHANGED class_attrs

\* a route entered and run up to its first await
Suspend(r) ==
    /\ pc' = "awaiting"
    /\ op' = "route"
    /\ req' = r
    /\ out' = NoOut
    /\ store' = r.secrets
    /\ UNCHANGED class_attrs

\* the suspended route run from its await to its hand-off; r.secrets are the
\* credentials and the environment as the lookups of the handler found them
Resume(r, o) ==
    /\ pc' = "done"
    /\ req' = r
    /\ out' = o
    /\ UNCHANGED <<op, class_attrs, store>>

\* the outcomes of user_api_key_auth for the caller of the gemini route
AuthOutcomes == {"accepted", "rejected"}

\* gemini_proxy_route up to `await user_api_key_auth(...)`: nothing is looked up
\* yet
GeminiRoute ==
    /\ pc = "idle"
    /\ \E r \in Requests("gemini") : Suspend(r)

\* gemini_proxy_route from the await on: a rejected caller ends the call, an
\* accepted one has the credential looked up now and the request handed over
GeminiResume ==
    /\ pc = "awaiting"
    /\ req.route = "gemini"
    /\ \E auth \in AuthOutcomes :
          LET r == [req EXCEPT !.secrets = store]
          IN Resume(r, IF auth = "rejected" THEN Raise("ProxyException")
                       ELSE gemini_proxy_route(r))

CohereRoute ==
    /\ pc = "idle"
    /\ \E r \in Requests("cohere") : HandleRoute(r, cohere_proxy_route(r))

\* anthropic_proxy_route: the credential is looked up on entry; a POST awaits
\* request.json() before the hand-off, any other method is handed over at once
AnthropicRoute ==
    /\ pc = "idle"
    /\ \E r \in Requests("anthropic") :
          IF r.method = "POST" THEN Suspend(r)
          ELSE HandleRoute(r, anthropic_proxy_route(r))

\* anthropic_proxy_route from `await request.json()` on, with the credential it
\* looked up on entry
AnthropicResume ==
    /\ pc = "awaiting"
    /\ req.route = "anthropic"
    /\ Resume(req, anthropic_proxy_route(req))

\* bedrock_proxy_route up to `await request.json()`: the region and the
\* credentials are taken on entry, whatever the method
BedrockRoute ==
    /\ pc = "idle"
    /\ \E r \in Requests("bedrock") : Suspend(r)

\* bedrock_proxy_route from the await on: the request is signed with the
\* credentials taken on entry and handed over
BedrockResume ==
    /\ pc = "awaiting"
    /\ req.route = "bedrock"
    /\ Resume(req, bedrock_proxy_route(req))

\* assemblyai_proxy_route, on either of its two routes: as anthropic_proxy_route
AssemblyaiRoute ==
    /\ pc = "idle"
    /\ \E r \in Requests("assemblyai") \cup Requests("eu.assemblyai") :
          IF r.method = "POST" THEN Suspend(r)
          ELSE HandleRoute(r, assemblyai_proxy_route(r))

\* assemblyai_proxy_route from `await request.json()` on, with the credential it
\* looked up on entry
AssemblyaiResume ==
    /\ pc = "awaiting"
    /\ req.route \in {"assemblyai", "eu.assemblyai"}
    /\ Resume(req, assemblyai_proxy_route(req))

AzureRoute ==
    /\ pc = "idle"
    /\ \E r \in Requests("azure") : HandleRoute(r, azure_proxy_route(r))

OpenaiRoute ==
    /\ pc = "idle"
    /\ \E r \in Requests("openai") : HandleRoute(r, openai_proxy_route(r))

\* while a route is suspended, another task writes the credentials or the
\* environment the route reads
WriteSecrets ==
    /\ pc = "awaiting"
    /\ \E written \in SecretsOf(req.route) \ {store} : store' = written
    /\ UNCHANGED <<pc, op, req, out, class_attrs>>

GetCompleteUrl ==
    /\ pc = "idle"
    /\ \E c \in UrlCalls :
          Handle("get_complete_url", c,
                 get_complete_url(c.api_base, c.env, c.model, c.optional_params, c.stream))

TransformRequest ==
    /\ pc = "idle"
    /\ \E c \in TransformCalls :
          Handle("transform_request", c,
                 transform_request(c.model, c.messages, c.optional_params, c.taken))

ValidateEnvironment ==
    /\ pc = "idle"
    /\ \E c \in ValidateCalls :
          Handle("validate_environment", c,
                 validate_environment(c.optional_params, c.api_key, c.issuer))

MapOpenaiParams ==
    /\ pc = "idle"
    /\ \E c \in MapCalls :
          Handle("map_openai_params", c,
                 map_openai_params(c.non_default_params, c.optional_params,
                                   c.model, c.drop_params))

\* IBMWatsonXAIConfig(**args): the constructor writes the attributes of the class
Construct ==
    /\ pc = "idle"
    /\ \E c \in InitCalls :
          /\ pc' = "done"
          /\ op' = "__init__"
          /\ req' = c
          /\ out' = [kind |-> "ok", error |-> "", value |-> None]
          /\ class_attrs' = __init__(class_attrs, c.args, c.kwargs)
          /\ UNCHANGED store

GetConfig ==
    /\ pc = "idle"
    /\ \E c \in ConfigCalls :
          Handle("get_config", c,
                 [kind |-> "ok", error |-> "", value |-> get_config(class_attrs)])

\* a caller decrypts its stored values in turn with decrypt_value_helper
DecryptValues ==
    /\ pc = "idle"
    /\ \E c \in DecryptCalls :
          LET got == DecryptAll(c.values, c.env)
          IN Handle("decrypt_values", c,
                    [kind |-> IF got.error = "" THEN "ok" ELSE "error",
                     error |-> got.error, value |-> got.value])

\* the call returns to its caller (or raises); the next call starts afresh
Return ==
    /\ pc = "done"
    /\ pc' = "idle"
    /\ op' = ""
    /\ req' = NoReq
    /\ out' = NoOut
    /\ store' = NoStore
    /\ UNCHANGED class_attrs

Next ==
    \/ GeminiRoute
    \/ GeminiResume
    \/ CohereRoute
    \/ AnthropicRoute
    \/ AnthropicResume
    \/ BedrockRoute
    \/ BedrockResume
    \/ AssemblyaiRoute
    \/ AssemblyaiResume
    \/ WriteSecrets
    \/ AzureRoute
    \/ OpenaiRoute
    \/ GetCompleteUrl
    \/ TransformRequest
    \/ ValidateEnvironment
    \/ MapOpenaiParams
    \/ Construct
    \/ GetConfig
    \/ DecryptValues
    \/ Return

Spec == Init /\ [][Next]_vars

\* ------------------------------------------------------------------------
\* Pass-through routes: properties
\* ------------------------------------------------------------------------

\* a route has handled its request to the end: it handed it over or raised
Routed == pc = "done" /\ op = "route"

Forwarded == Routed /\ out.kind = "forwarded"

\* the credential the route of r looks up
CredentialOf(r) ==
    CASE r.route = "bedrock" -> BedrockCredentials(r.secrets)
      [] r.route \in {"assemblyai", "eu.assemblyai"} ->
           get_credentials(r.secrets, "assemblyai", IF IsEuRoute(r) THEN <<"eu">> ELSE None)
      [] OTHER -> get_credentials(r.secrets, r.route, None)

\* the secret the base URL of the route of r is made from, when it is looked up
BaseSecretOf(r) ==
    CASE r.route = "azure" -> get_secret_str(r.secrets, "AZURE_API_BASE")
      [] r.route = "bedrock" -> get_secret_str(r.secrets, "AWS_REGION_NAME")
      [] OTHER -> <<"constant">>

\* C1: no route hands a request to the forwarding function when the lookup of
\* its base URL or of its credential yielded no value.
C1_NoForwardWithoutConfig ==
    Forwarded => (BaseSecretOf(req) # None /\ CredentialOf(req) # None)

BodyFlagRoutes == {"anthropic", "assemblyai", "eu.assemblyai"}

UrlMarkerRoutes == {"gemini", "cohere", "bedrock", "azure", "openai"}

\* C2: in the bedrock route the method and the body the signature was computed
\* over are the method and the body of the request that is forwarded.
C2_SignedIsForwarded ==
    (Forwarded /\ req.route = "bedrock") =>
        /\ out.signed.method = ForwardedMethod(req)
        /\ JsonLoads(out.signed.data) = out.kwargs.custom_body

\* C3: for anthropic and assemblyai, a POST whose JSON body has a truthy stream
\* field is forwarded as streaming whatever the URL, and a GET is forwarded as
\* not streaming whatever its body.
C3_BodyFlagStreaming ==
    (Routed /\ req.route \in BodyFlagRoutes) =>
        /\ (req.method = "POST" /\
            req.body \in {"{\"stream\": true}", "{\"stream\":true}", "{\"stream\": 1}"})
               => (out.kind = "forwarded" /\ out.kwargs.stream = TRUE)
        /\ req.method = "GET"
               => (out.kind = "forwarded" /\ out.kwargs.stream = FALSE)

\* C3 witness: a POST with {"stream": true} to a URL without the marker is
\* forwarded as streaming
C3_Witness ==
    /\ Routed
    /\ req.route = "anthropic"
    /\ req.method = "POST"
    /\ req.body = "{\"stream\": true}"
    /\ req.endpoint = <<"v1", "/", "agents">>
    /\ out.kind = "forwarded"
    /\ ~ContainsStream(out.target)
    /\ out.kwargs.stream = TRUE

\* C4: for anthropic and assemblyai, a POST whose body is absent or is not JSON
\* is forwarded as not streaming.
C4_BodyCheckNeverRaises ==
    (Routed /\ req.route \in BodyFlagRoutes /\ req.method = "POST" /\
     req.body \in {"", "not json"})
        => (out.kind = "forwarded" /\ out.kwargs.stream = FALSE)

\* C5, as claimed: whatever the route, a forwarded request whose composed URL
\* contains the marker "stream" is forwarded as streaming.
C5_UrlMarkerStreamingEveryRoute ==
    (Forwarded /\ ContainsStream(out.target)) => out.kwargs.stream = TRUE

\* C5, amended: on the routes gemini, cohere, bedrock, azure and openai, a
\* forwarded request whose composed URL contains the marker "stream" is forwarded
\* as streaming, whatever its method and body.
C5_UrlMarkerStreaming ==
    (Forwarded /\ req.route \in UrlMarkerRoutes /\ ContainsStream(out.target))
        => out.kwargs.stream = TRUE

\* C5 witness: a GET on the azure route whose base URL carries the marker
C5_Witness ==
    /\ Forwarded
    /\ req.route = "azure"
    /\ req.method = "GET"
    /\ req.endpoint = <<"v1">>
    /\ out.target = <<"https://stream.example", "/", "v1">>
    /\ out.kwargs.stream = TRUE

\* ------------------------------------------------------------------------
\* The watsonx adapter: properties
\* ------------------------------------------------------------------------

UrlReturned == op = "get_complete_url" /\ out.kind = "ok"

PayloadReturned == op = "transform_request" /\ out.kind = "ok"

\* the model is "deployment/<id>": its first token is the word "deployment" and
\* its second the first "/"
NamesDeployment(model) == Len(model) >= 2 /\ model[1] = "deployment" /\ model[2] = "/"

\* everything after the first "/" of the model
AfterFirstSlash(model) == SubSeq(model, FirstIn(model, {"/"}, 1) + 1, Len(model))

\* the part of a returned URL before its last "?", the one of the version
BeforeQuery(url) ==
    LET marks == {i \in 1..Len(url) : url[i] = "?"}
    IN IF marks = {} THEN url
       ELSE SubSeq(url, 1, (CHOOSE i \in marks : \A j \in marks : j <= i) - 1)

\* the named-model text-generation template
NamedModelEndpoint(streaming) ==
    IF streaming THEN TEXT_GENERATION_STREAM ELSE TEXT_GENERATION

\* the deployment template, with id as the deployment id
DeploymentEndpoint(id, streaming) ==
    IF streaming THEN DEPLOYMENT_TEXT_GENERATION_STREAM(id)
    ELSE DEPLOYMENT_TEXT_GENERATION(id)

\* the URLs the sources of a call can resolve to, stripped of trailing "/"
StrippedSources(c) ==
    {RStripSlash(u) : u \in ({c.api_base} \cup {c.env[a] : a \in DOMAIN c.env}) \ {None}}

\* the returned URL is one of the call's base URLs followed by the endpoint
UsesEndpoint(c, url, endpoint) ==
    \E base \in StrippedSources(c) : BeforeQuery(url) = base \o endpoint

\* C6: a returned URL uses the named-model template when the model does not
\* start with "deployment/" and the deployment template, with everything after
\* the first "/" as the deployment id, when it does; in both cases the streaming
\* variant exactly when the stream flag is true.
C6_EndpointTemplate ==
    UrlReturned =>
        IF NamesDeployment(req.model)
        THEN UsesEndpoint(req, out.value,
                          DeploymentEndpoint(AfterFirstSlash(req.model), req.stream = "True"))
        ELSE UsesEndpoint(req, out.value, NamedModelEndpoint(req.stream = "True"))

\* C6 witness: a streaming call for a deployment whose id has a "/" in it
C6_Witness ==
    /\ UrlReturned
    /\ req.model = <<"deployment", "/", "ibm", "/">>
    /\ req.stream = "True"
    /\ req.api_base = <<"https://wx.example", "/">>
    /\ BeforeQuery(out.value) =
           <<"https://wx.example", "/", "ml", "/", "v1", "/", "deployments", "/",
             "ibm", "/", "/", "text", "/", "generation_stream">>

\* C7: a payload carries model_id and project_id exactly when the model does
\* not start with "deployment/", and a URL is a named-model URL exactly when the
\* model does not start with "deployment/": the payload and the URL of one model
\* never address it in two ways.
C7_AddressingAgrees ==
    /\ PayloadReturned =>
          /\ ("model_id" \in DOMAIN out.value) = ~NamesDeployment(req.model)
          /\ ("project_id" \in DOMAIN out.value) = ~NamesDeployment(req.model)
    /\ UrlReturned =>
          /\ NamesDeployment(req.model) =>
                ~UsesEndpoint(req, out.value, NamedModelEndpoint(req.stream = "True"))
          /\ ~NamesDeployment(req.model) =>
                UsesEndpoint(req, out.value, NamedModelEndpoint(req.stream = "True"))

\* C7 witness: the payload of a deployment model, without model_id
C7_Witness ==
    /\ PayloadReturned
    /\ req.model = <<"deployment", "/", "ibm">>
    /\ "model_id" \notin DOMAIN out.value
    /\ "parameters" \in DOMAIN out.value

IsProviderSlashName(model) ==
    /\ Len(model) = 3
    /\ model[1] \notin {"/", "deployment"}
    /\ model[2] = "/"
    /\ model[3] # "/"

\* the top-level keys a payload may have: none of them is a deployment path
PayloadKeys == {"input", "moderations", "parameters", "model_id", "project_id"}

\* C8, as claimed: for a model <provider>/<name> and a temperature, the payload
\* has model_id = <name>, the temperature in parameters and no deployment path.
C8_ModelIdIsStripped ==
    (PayloadReturned /\ IsProviderSlashName(req.model) /\
     "temperature" \in DOMAIN req.optional_params)
        => /\ out.value["model_id"] = <<req.model[3]>>
           /\ "temperature" \in DOMAIN out.value["parameters"]
           /\ DOMAIN out.value \subseteq PayloadKeys

\* C8, amended: for a model <provider>/<name> and a temperature, the payload has
\* model_id = the model as given, prefix included; parameters holds the
\* temperature (the one of extra_body when extra_body has one, the given one
\* otherwise); and the payload has no deployment path.
C8_ModelIdIsModel ==
    (PayloadReturned /\ IsProviderSlashName(req.model) /\
     "temperature" \in DOMAIN req.optional_params)
        => /\ out.value["model_id"] = req.model
           /\ "temperature" \in DOMAIN out.value["parameters"]
           /\ out.value["parameters"]["temperature"] =
                 (IF "extra_body" \in DOMAIN req.optional_params /\
                     "temperature" \in DOMAIN req.optional_params["extra_body"]
                  THEN req.optional_params["extra_body"]["temperature"]
                  ELSE req.optional_params["temperature"])
           /\ DOMAIN out.value \subseteq PayloadKeys

\* C8 witness: the payload of ibm/granite-13b with temperature 0.5
C8_Witness ==
    /\ PayloadReturned
    /\ req.model = <<"ibm", "/", "granite-13b">>
    /\ req.optional_params = [temperature |-> <<"0.5">>, project_id |-> <<"project-1">>]
    /\ out.value["model_id"] = <<"ibm", "/", "granite-13b">>
    /\ out.value["parameters"] = [temperature |-> <<"0.5">>]

\* the sources of the base URL of a call, in the order of the claim
UrlSources(c) ==
    <<c.api_base, c.env["WATSONX_API_BASE"], c.env["WATSONX_URL"], c.env["WX_URL"],
      c.env["WML_URL"]>>

\* a source yields a value: it is set, and not to the empty str
Yields(v) == v # None /\ v # << >>

\* C9: the base of the URL is the first source that yields a value, and the call
\* fails with the configuration error exactly when no source yields one.
C9_FirstSourceWins ==
    op = "get_complete_url" =>
        LET sources == UrlSources(req)
            yielding == {i \in 1..Len(sources) : Yields(sources[i])}
        IN IF yielding = {}
           THEN out.kind = "error" /\ out.error = "Watsonx URL not set"
           ELSE /\ out.error # "Watsonx URL not set"
                /\ out.kind = "ok" =>
                      LET first == CHOOSE i \in yielding : \A j \in yielding : i <= j
                      IN StartsWith(out.value, RStripSlash(sources[first]))

\* C10: returned headers carry Authorization; an explicit token gives
\* "Bearer <token>" without a call of the issuer; otherwise the header is
\* "Bearer <issued token>", and the call fails when no token is issued.
C10_AuthorizationAlways ==
    op = "validate_environment" =>
        LET token == IF "token" \in DOMAIN req.optional_params
                     THEN req.optional_params["token"] ELSE None
            explicit == token # None /\ token # << >>
        IN /\ out.kind = "ok" => "Authorization" \in DOMAIN out.value
           /\ explicit =>
                 /\ out.kind = "ok"
                 /\ out.value["Authorization"] = <<"Bearer ">> \o token
                 /\ ~out.issued
           /\ (~explicit /\ req.issuer # None) =>
                 /\ out.kind = "ok"
                 /\ out.value["Authorization"] = <<"Bearer ">> \o req.issuer
                 /\ out.issued
           /\ (~explicit /\ req.issuer = None) => out.kind = "error"

\* C10 witness: no token in optional_params, and the issuer hands one out
C10_Witness ==
    /\ op = "validate_environment"
    /\ req.optional_params = EmptyDict
    /\ req.issuer = <<"issued-token">>
    /\ out.kind = "ok"
    /\ out.issued
    /\ out.value["Authorization"] = <<"Bearer ", "issued-token">>

\* ------------------------------------------------------------------------
\* Pass-through routes: headers and query parameters
\* ------------------------------------------------------------------------

DualHeaderRoutes == {"openai", "azure"}

\* C11: on the openai and azure routes, a call whose token resolved to T (and,
\* for azure, whose base URL resolved) is handed to the forwarding function with
\* the headers authorization: Bearer T and api-key: T and no other, whatever the
\* inbound path, method, body and query.
C11_DualHeaders ==
    (Routed /\ req.route \in DualHeaderRoutes /\
     CredentialOf(req) # None /\ BaseSecretOf(req) # None) =>
        /\ out.kind = "forwarded"
        /\ DOMAIN out.custom_headers = {"authorization", "api-key"}
        /\ out.custom_headers["authorization"] = <<"Bearer ">> \o CredentialOf(req)
        /\ out.custom_headers["api-key"] = CredentialOf(req)

\* C11 witness: a DELETE on the azure route with a query is handed over with
\* both headers made from the azure credential
C11_Witness ==
    /\ Forwarded
    /\ req.route = "azure"
    /\ req.method = "DELETE"
    /\ req.endpoint = <<"/", "v1", "/">>
    /\ req.query # EmptyDict
    /\ out.custom_headers["authorization"] = <<"Bearer ", "key-", "azure">>
    /\ out.custom_headers["api-key"] = <<"key-", "azure">>

\* C12: the query parameters the gemini route hands to the forwarding function
\* are the caller's parameters and "key"; every caller parameter with another
\* name keeps its value, and "key" has the provider's credential, never the
\* caller's value.
C12_InjectedKeyWins ==
    (Forwarded /\ req.route = "gemini") =>
        LET merged_params == out.kwargs.query_params
        IN /\ DOMAIN merged_params = DOMAIN req.query \cup {"key"}
           /\ \A name \in DOMAIN req.query \ {"key"} :
                  merged_params[name] = req.query[name]
           /\ merged_params["key"] = CredentialOf(req)

\* C12 witness: the caller supplied its own "key" and another parameter; the
\* other parameter is handed over unchanged and "key" has the credential
C12_Witness ==
    /\ Forwarded
    /\ req.route = "gemini"
    /\ "key" \in DOMAIN req.query
    /\ req.query["key"] = <<"caller-key">>
    /\ out.kwargs.query_params["alt"] = <<"sse">>
    /\ out.kwargs.query_params["key"] = <<"key-", "gemini">>

\* ------------------------------------------------------------------------
\* The watsonx adapter: the mapping of parameters
\* ------------------------------------------------------------------------

Mapping == op = "map_openai_params"

\* the canonical keys that have a destination at the top level
TopLevelKeys ==
    {"max_tokens", "stream", "temperature", "top_p", "frequency_penalty", "seed", "stop"}

\* the canonical keys that have a destination in extra_body
ExtraBodyKeys ==
    {"decoding_method", "min_tokens", "top_k", "truncate_input_tokens",
     "length_penalty", "time_limit", "return_options"}

\* the keys of the call that have no declared destination
Undeclared(c) == DOMAIN c.non_default_params \ (TopLevelKeys \cup ExtraBodyKeys)

\* the value v is nowhere in the native params
NotWritten(v, native) ==
    /\ \A d \in DOMAIN native \ {"extra_body"} : native[d] # v
    /\ "extra_body" \in DOMAIN native =>
           \A d \in DOMAIN native["extra_body"] : native["extra_body"][d] # v

\* C13, as claimed: when a key of the call has no declared destination, the call
\* made with drop_params true returns native params without that key, and the
\* call made with drop_params false (the strict mode) fails.
C13_StrictModeFails ==
    (Mapping /\ Undeclared(req) # {}) =>
        IF req.drop_params
        THEN out.kind = "ok" /\ \A k \in Undeclared(req) : k \notin DOMAIN out.value
        ELSE out.kind = "error"

\* C13, amended: when a key of the call has no declared destination, the call
\* returns native params whatever drop_params is, and the value of that key is
\* nowhere in them, neither at the top level nor in extra_body; the key itself is
\* in them only as the destination of another key of the call.
C13_UndeclaredNeverWritten ==
    (Mapping /\ Undeclared(req) # {}) =>
        /\ out.kind = "ok"
        /\ \A k \in Undeclared(req) :
              /\ NotWritten(req.non_default_params[k], out.value)
              /\ k \in DOMAIN out.value =>
                     \E j \in DOMAIN req.non_default_params \cap TopLevelKeys :
                         out.value[k] = req.non_default_params[j]

\* C13 witness: a strict call with logit_bias and temperature returns the
\* temperature alone
C13_Witness ==
    /\ Mapping
    /\ ~req.drop_params
    /\ DOMAIN req.non_default_params = {"logit_bias", "temperature"}
    /\ out.kind = "ok"
    /\ DOMAIN out.value = {"temperature"}
    /\ out.value["temperature"] = <<"0.5">>

\* the field of extra_body a canonical key is written to
ExtraBodyField(k) == IF k = "min_tokens" THEN "min_new_tokens" ELSE k

\* the field of the top level a canonical key is written to
TopLevelField(k) ==
    CASE k = "max_tokens" -> "max_new_tokens"
      [] k = "frequency_penalty" -> "repetition_penalty"
      [] k = "seed" -> "random_seed"
      [] k = "stop" -> "stop_sequences"
      [] OTHER -> k

\* C14: when no key of the call maps to a field of extra_body, the native params
\* returned have no extra_body at all; when at least one does, they have an
\* extra_body whose fields are the extra-body parameters of the call, all of
\* them and nothing else, each with the value of the call.
C14_ExtraBodyOnlyWhenNeeded ==
    Mapping =>
        LET keys == DOMAIN req.non_default_params \cap ExtraBodyKeys
        IN /\ out.kind = "ok"
           /\ keys = {} => "extra_body" \notin DOMAIN out.value
           /\ keys # {} =>
                 /\ "extra_body" \in DOMAIN out.value
                 /\ DOMAIN out.value["extra_body"] = {ExtraBodyField(k) : k \in keys}
                 /\ \A k \in keys :
                        out.value["extra_body"][ExtraBodyField(k)] = req.non_default_params[k]

\* C14 witness: a call with top-level parameters alone returns them without an
\* extra_body
C14_Witness ==
    /\ Mapping
    /\ DOMAIN req.non_default_params = {"temperature", "max_tokens", "stop"}
    /\ out.kind = "ok"
    /\ DOMAIN out.value = {"temperature", "max_new_tokens", "stop_sequences"}

\* C15: the native params map_openai_params returns are a function of the
\* parameters it is given: every key with a top-level destination is in its
\* top-level field with its value and not in extra_body, every key with an
\* extra-body destination is in its field of extra_body with its value and not
\* at the top level, and the native params have no other field.
C15_OneDestinationEach ==
    Mapping =>
        LET params == req.non_default_params
            top == DOMAIN params \cap TopLevelKeys
            extra == DOMAIN params \cap ExtraBodyKeys
            extra_body == IF "extra_body" \in DOMAIN out.value
                          THEN out.value["extra_body"] ELSE EmptyDict
        IN /\ out.kind = "ok"
           /\ DOMAIN out.value \ {"extra_body"} = {TopLevelField(k) : k \in top}
           /\ \A k \in top :
                 /\ out.value[TopLevelField(k)] = params[k]
                 /\ TopLevelField(k) \notin DOMAIN extra_body
           /\ \A k \in extra :
                 /\ ExtraBodyField(k) \in DOMAIN extra_body
                 /\ extra_body[ExtraBodyField(k)] = params[k]
                 /\ ExtraBodyField(k) \notin DOMAIN out.value

\* C15 witness: frequency_penalty, max_tokens and min_tokens are each in their
\* own destination with their own value
C15_Witness ==
    /\ Mapping
    /\ DOMAIN req.non_default_params = {"frequency_penalty", "max_tokens", "min_tokens"}
    /\ out.kind = "ok"
    /\ DOMAIN out.value = {"repetition_penalty", "max_new_tokens", "extra_body"}
    /\ out.value["repetition_penalty"] = <<"1.2">>
    /\ out.value["max_new_tokens"] = <<"256">>
    /\ out.value["extra_body"] = [min_new_tokens |-> <<"8">>]

\* ------------------------------------------------------------------------
\* The watsonx adapter: configuration
\* ------------------------------------------------------------------------

\* C16: constructing a configuration, with or without overrides, changes no
\* configuration value that another instance or a later call observes: every
\* attribute the class declares keeps its declared value, and get_config
\* returns the declared values.
C16_NoSharedConfiguration ==
    /\ \A key \in DOMAIN IBMWatsonXAIConfig : class_attrs[key] = IBMWatsonXAIConfig[key]
    /\ op = "get_config" =>
           \A key \in DOMAIN IBMWatsonXAIConfig \cap DOMAIN out.value :
               out.value[key] = IBMWatsonXAIConfig[key]

\* ------------------------------------------------------------------------
\* Stored secrets: properties
\* ------------------------------------------------------------------------

\* the stored value is what encrypt_value_helper made of a plaintext under the
\* signing key of env
EncryptedUnder(stored, p, env) ==
    /\ _get_salt_key(env) # None
    /\ stored = encrypt_value_helper([isstr |-> TRUE, v |-> p], env).value

\* C17: a caller that decrypts a sequence of stored values gets a result for
\* every one of them, whatever fails: no exception stops it, a value encrypted
\* under the current signing key yields its plaintext, a value that is not a
\* str is handed back as it is, and any other value yields None.
C17_DecryptionNeverBlocks ==
    op = "decrypt_values" =>
        /\ out.kind = "ok"
        /\ Len(out.value) = Len(req.values)
        /\ \A i \in 1..Len(req.values) :
              LET stored == req.values[i]
              IN IF ~stored.isstr THEN out.value[i] = stored
                 ELSE IF \E p \in Plaintexts : EncryptedUnder(stored, p, req.env)
                 THEN \E p \in Plaintexts :
                          /\ EncryptedUnder(stored, p, req.env)
                          /\ out.value[i] = [isstr |-> TRUE, v |-> p]
                 ELSE out.value[i].v = None

\* C17 witness: the first value is not base64, the second was encrypted under a
\* key no longer in use, the third under the current key; the caller gets None,
\* None and the plaintext
C17_Witness ==
    /\ op = "decrypt_values"
    /\ Len(req.values) = 3
    /\ req.env.LITELLM_SALT_KEY = <<"salt-1">>
    /\ req.values[1].v = <<"not base64">>
    /\ req.values[2].v = <<"b64:", "box:", "old-salt", ":", "sk-live">>
    /\ EncryptedUnder(req.values[3], <<"sk-live">>, req.env)
    /\ out.kind = "ok"
    /\ out.value[1].v = None
    /\ out.value[2].v = None
    /\ out.value[3].v = <<"sk-live">>

\* ------------------------------------------------------------------------
\* Pass-through routes: the region of assemblyai
\* ------------------------------------------------------------------------

\* C18: a request forwarded by the route /eu.assemblyai/ goes to the EU base URL
\* with the credential of the region eu, and a request forwarded by the route
\* /assemblyai/ goes to the default base URL with the credential of no region,
\* whatever its path suffix and its query parameters are.
C18_RegionFromRoute ==
    (Forwarded /\ req.route \in {"assemblyai", "eu.assemblyai"}) =>
        IF req.route = "eu.assemblyai"
        THEN /\ StartsWith(out.target, <<"https://api.eu.assemblyai.com">>)
             /\ out.custom_headers["Authorization"] =
                    Str(get_credentials(req.secrets, "assemblyai", <<"eu">>))
        ELSE /\ StartsWith(out.target, <<"https://api.assemblyai.com">>)
             /\ out.custom_headers["Authorization"] =
                    Str(get_credentials(req.secrets, "assemblyai", None))

\* ------------------------------------------------------------------------
\* The watsonx adapter: the API version
\* ------------------------------------------------------------------------

\* the version a call resolves: its api_version when it has one, the default
\* otherwise
ResolvedVersion(c) ==
    IF "api_version" \in DOMAIN c.optional_params
    THEN c.optional_params["api_version"]
    ELSE WATSONX_DEFAULT_API_VERSION

\* the positions of the token in the URL
Positions(url, token) == {i \in 1..Len(url) : url[i] = token}

\* C19: a returned URL has one query string with one version parameter in it,
\* whose value is the resolved version and which ends the URL: the URL has
\* exactly one "?" and exactly one "version=", after the "?", followed by the
\* resolved version.
C19_SingleVersionParameter ==
    UrlReturned =>
        /\ Cardinality(Positions(out.value, "?")) = 1
        /\ Cardinality(Positions(out.value, "version=")) = 1
        /\ \A q \in Positions(out.value, "?") : \A v \in Positions(out.value, "version=") :
              /\ q < v
              /\ SubSeq(out.value, v + 1, Len(out.value)) = ResolvedVersion(req)

\* ------------------------------------------------------------------------
\* The watsonx adapter: the space of a deployment
\* ------------------------------------------------------------------------

\* the call resolves a base URL: api_base or one of the aliases is truthy or,
\* failing that, the last alias is not None
ResolvesUrl(c) == ResolveUrl(c.api_base, c.env) # None

\* the call carries no space_id: the key is absent or its value is None
NoSpaceId(c) ==
    "space_id" \notin DOMAIN c.optional_params \/ c.optional_params["space_id"] = None

\* C20: a call of get_complete_url for a model that starts with "deployment/"
\* and without space_id returns no URL, whatever the stream flag; a call for any
\* other model that resolves a base URL returns a URL whether it has a space_id
\* or not.
C20_DeploymentNeedsSpace ==
    op = "get_complete_url" =>
        /\ (NamesDeployment(req.model) /\ NoSpaceId(req)) => out.kind = "error"
        /\ ~NamesDeployment(req.model) =>
              /\ ResolvesUrl(req) => out.kind = "ok"
              /\ out.kind = "error" => out.error = "Watsonx URL not set"

\* C20 witness: a streaming call for a deployment with space_id None and a base
\* URL fails for want of the space_id
C20_Witness ==
    /\ op = "get_complete_url"
    /\ req.model = <<"deployment", "/", "ibm">>
    /\ req.stream = "True"
    /\ req.api_base = <<"https://wx.example", "/">>
    /\ "space_id" \in DOMAIN req.optional_params
    /\ req.optional_params["space_id"] = None
    /\ out.kind = "error"
    /\ out.error = "space_id is required"

\* ------------------------------------------------------------------------
\* The watsonx adapter: the parameters of the payload
\* ------------------------------------------------------------------------

\* the extra_body of the optional_params of a call, empty when it has none
ExtraBodyOf(c) ==
    IF "extra_body" \in DOMAIN c.optional_params
    THEN c.optional_params["extra_body"] ELSE EmptyDict

\* the optional_params of a call with the entries of extra_body in place of
\* extra_body itself, an entry of extra_body replacing a top-level entry of the
\* same name
Flattened(c) ==
    LET top == DOMAIN c.optional_params \ {"extra_body"}
        extra == ExtraBodyOf(c)
    IN [k \in top \cup DOMAIN extra |->
           IF k \in DOMAIN extra THEN extra[k] ELSE c.optional_params[k]]

\* the flattened optional_params of a call as _get_api_params leaves them
LeftByApiParams(c) ==
    LET merged == Flattened(c)
    IN [k \in DOMAIN merged \ c.taken |-> merged[k]]

\* C21, as claimed: every entry of extra_body is in parameters with the value
\* extra_body gives it, parameters has neither an extra_body key nor a
\* moderations key, and the payload has moderations at its top level, the
\* top-level moderations of the optional_params or an empty object.
C21_EveryEntryInParameters ==
    PayloadReturned =>
        LET parameters == out.value["parameters"]
            extra == ExtraBodyOf(req)
        IN /\ \A k \in DOMAIN extra : k \in DOMAIN parameters /\ parameters[k] = extra[k]
           /\ "extra_body" \notin DOMAIN parameters
           /\ "moderations" \notin DOMAIN parameters
           /\ "moderations" \in DOMAIN out.value
           /\ out.value["moderations"] =
                  (IF "moderations" \in DOMAIN req.optional_params
                   THEN req.optional_params["moderations"] ELSE EmptyDict)

\* C21, amended: the entries of extra_body are merged into the optional_params
\* in place of extra_body, an extra_body entry replacing a top-level entry of
\* the same name. Whatever entries _get_api_params pops from the merged params
\* are in no part of the flattening. Of the entries it leaves, moderations is
\* the moderations of the payload (an empty object when there is none) and all
\* the others make up parameters, each with its merged value; so parameters
\* never has a moderations key, and has an extra_body key only when extra_body
\* itself had an entry of that name.
C21_MergedThenSplit ==
    PayloadReturned =>
        LET parameters == out.value["parameters"]
            left == LeftByApiParams(req)
        IN /\ DOMAIN parameters = DOMAIN left \ {"moderations"}
           /\ \A k \in DOMAIN parameters : parameters[k] = left[k]
           /\ "moderations" \notin DOMAIN parameters
           /\ "extra_body" \in DOMAIN parameters =>
                  "extra_body" \in DOMAIN ExtraBodyOf(req)
           /\ "extra_body" \in DOMAIN ExtraBodyOf(req) \ req.taken =>
                  "extra_body" \in DOMAIN parameters
           /\ "moderations" \in DOMAIN out.value
           /\ out.value["moderations"] =
                  (IF "moderations" \in DOMAIN left
                   THEN left["moderations"] ELSE EmptyDict)

\* C21 witness: top_k and moderations are given at the top level and in
\* extra_body; the payload has the two values of extra_body, top_k in parameters
\* and moderations at its top level
C21_Witness ==
    /\ PayloadReturned
    /\ req.taken = {"project_id", "space_id"}
    /\ DOMAIN req.optional_params = {"top_k", "project_id", "moderations", "extra_body"}
    /\ DOMAIN req.optional_params["extra_body"] = {"moderations", "top_k"}
    /\ req.optional_params["top_k"] = <<"40">>
    /\ out.value["parameters"] = [top_k |-> <<"9">>]
    /\ out.value["moderations"] = [pii |-> <<"on">>]

====
